---------------------------- MODULE Spec2Model ----------------------------
(***************************************************************************)
(* The optillm gateway (src/optillm.py): main() fills server_config from   *)
(* the command line and starts the Flask server; proxy() handles each POST *)
(* to /v1/chat/completions in its own handler thread.                      *)
(*                                                                         *)
(* Strings the code splits or concatenates (the model field, the approach  *)
(* name, error messages) are sequences of one-character strings; strings   *)
(* the code only compares or copies (roles, contents, urls) are TLA+       *)
(* strings.                                                                *)
(***************************************************************************)
EXTENDS Integers, Sequences, FiniteSets, TLC

VARIABLES server_config, started, handlers

vars == <<server_config, started, handlers>>

---------------------------------------------------------------------------
(* Bounds of the model.                                                    *)

\* number of requests (one Flask handler thread each) in a run
MaxReq == 2
\* longest model string drawn from Alphabet
MaxLen == 5
\* longest message sequence of a request
MaxMsgs == 3
\* longest candidate list a strategy returns
MaxN == 3

---------------------------------------------------------------------------
(* String literals of the source, as character sequences.                  *)

S_auto == <<"a","u","t","o">>
S_mcts == <<"m","c","t","s">>
S_bon == <<"b","o","n">>
S_moa == <<"m","o","a">>
S_rto == <<"r","t","o">>
S_z3 == <<"z","3">>
S_self_consistency == <<"s","e","l","f","_","c","o","n","s","i","s","t","e","n","c","y">>
S_pvg == <<"p","v","g">>
S_rstar == <<"r","s","t","a","r">>
S_cot_reflection == <<"c","o","t","_","r","e","f","l","e","c","t","i","o","n">>
S_plansearch == <<"p","l","a","n","s","e","a","r","c","h">>
S_gpt_4o_mini == <<"g","p","t","-","4","o","-","m","i","n","i">>
S_UnknownApproach == <<"U","n","k","n","o","w","n"," ","a","p","p","r","o","a","c","h",":"," ">>

\* the approaches the if/elif chain of proxy() dispatches
KnownApproaches ==
    { S_mcts, S_bon, S_moa, S_rto, S_z3, S_self_consistency, S_pvg, S_rstar,
      S_cot_reflection, S_plansearch }

\* choices= of the --approach argument
ApproachChoices == {S_auto} \cup KnownApproaches

---------------------------------------------------------------------------
(* JSON values of the request body.                                        *)

JStr(s) == [t |-> "str", v |-> s]
JNull == [t |-> "null", v |-> <<>>]

\* a decoded body that is a JSON object with the given members
JObject(fields) == [kind |-> "dict", fields |-> fields]
\* a decoded body that is not an object (an array, null, a number)
JNotObject == [kind |-> "other", fields |-> <<>>]
NoData == [kind |-> "unset", fields |-> <<>>]

\* dict.get(key, default)
DictGet(d, key, default) == IF key \in DOMAIN d THEN d[key] ELSE default

\* dict.update(other)
DictUpdate(d, other) ==
    [k \in DOMAIN d \cup DOMAIN other |-> IF k \in DOMAIN other THEN other[k] ELSE d[k]]

---------------------------------------------------------------------------
(* server_config as the module sets it at import; floats in tenths.        *)

ModuleConfig ==
    [ approach |-> S_bon,
      mcts_simulations |-> 2,
      mcts_exploration |-> 2,
      mcts_depth |-> 1,
      best_of_n |-> 3,
      model |-> S_gpt_4o_mini,
      rstar_max_depth |-> 3,
      rstar_num_rollouts |-> 5,
      rstar_c |-> 14,
      n |-> 1 ]

\* the values argparse yields: the defaults, with the arguments that
\* requests can observe (approach, model, base_url, n,
\* return_full_response) drawn from a set
ParsedArgs(approach, model, base_url, n, full) ==
    [ approach |-> approach,
      simulations |-> 2,
      exploration |-> 2,
      depth |-> 1,
      best_of_n |-> 3,
      model |-> model,
      base_url |-> base_url,
      rstar_max_depth |-> 3,
      rstar_num_rollouts |-> 5,
      rstar_c |-> 14,
      n |-> n,
      return_full_response |-> full ]

\* the dict main() passes to server_config.update
ConfigFromArgs(args) ==
    [ model |-> args.model,
      approach |-> args.approach,
      mcts_simulations |-> args.simulations,
      mcts_exploration |-> args.exploration,
      mcts_depth |-> args.depth,
      best_of_n |-> args.best_of_n,
      rstar_max_depth |-> args.rstar_max_depth,
      rstar_num_rollouts |-> args.rstar_num_rollouts,
      rstar_c |-> args.rstar_c,
      base_url |-> args.base_url,
      return_full_response |-> args.return_full_response,
      n |-> args.n ]

---------------------------------------------------------------------------
(* A request handler: the locals of one run of proxy().                    *)

NoCall ==
    [ made |-> FALSE, name |-> <<>>, system_prompt |-> "", initial_query |-> "",
      client |-> [base_url |-> "", default |-> TRUE], model |-> JNull,
      params |-> <<>> ]

NoResponse ==
    [ kind |-> "none", status |-> 0, model |-> JNull, choices |-> <<>>,
      error |-> <<>>, exc |-> "" ]

IdleHandler ==
    [ pc |-> "idle",
      data |-> NoData,
      messages |-> <<>>,
      model |-> JNull,
      n |-> 0,
      system_prompt |-> "",
      initial_query |-> "",
      approach |-> <<>>,
      base_url |-> "",
      client |-> [base_url |-> "", default |-> TRUE],
      call |-> NoCall,
      final_response |-> [t |-> "none", s |-> "", l |-> <<>>, msg |-> <<>>],
      resp |-> NoResponse,
      afterFailure |-> FALSE ]

\* proxy() left by an exception no except clause of proxy() catches
Uncaught(exc) == [NoResponse EXCEPT !.kind = "uncaught", !.exc = exc]

\* jsonify({"error": str(e)}), 500
ErrorResponse(msg) == [NoResponse EXCEPT !.kind = "error", !.status = 500, !.error = msg]

Init ==
    /\ server_config = ModuleConfig
    /\ started = FALSE
    /\ handlers = [r \in 1..MaxReq |-> IdleHandler]

\* main(): parse the arguments, update server_config, app.run
main(Args) ==
    /\ ~started
    /\ \E args \in Args :
         server_config' = DictUpdate(server_config, ConfigFromArgs(args))
    /\ started' = TRUE
    /\ UNCHANGED handlers


---------------------------------------------------------------------------
(* The steps of proxy(), each a function of the handler's locals and the   *)
(* server_config it reads.                                                 *)

RECURSIVE LastContent(_, _)
\* FirstContent, had the code taken the last match instead of the first
LastContent(messages, role) ==
    IF messages = <<>> THEN [ok |-> TRUE, v |-> ""]
    ELSE LET msg == messages[Len(messages)] IN
         IF "role" \notin DOMAIN msg THEN [ok |-> FALSE, v |-> ""]
         ELSE IF msg["role"] = role
              THEN IF "content" \notin DOMAIN msg THEN [ok |-> FALSE, v |-> ""]
                   ELSE [ok |-> TRUE, v |-> msg["content"]]
              ELSE LastContent(SubSeq(messages, 1, Len(messages) - 1), role)

RECURSIVE FirstContent(_, _)
\* next((msg['content'] for msg in messages if msg['role'] == role), "")
\* ok = FALSE: a KeyError left the generator
FirstContent(messages, role) ==
    IF messages = <<>> THEN [ok |-> TRUE, v |-> ""]
    ELSE LET msg == Head(messages) IN
         IF "role" \notin DOMAIN msg THEN [ok |-> FALSE, v |-> ""]
         ELSE IF msg["role"] = role
              THEN IF "content" \notin DOMAIN msg THEN [ok |-> FALSE, v |-> ""]
                   ELSE [ok |-> TRUE, v |-> msg["content"]]
              ELSE FirstContent(Tail(messages), role)

RECURSIVE SplitScan(_, _)
\* str.split('-', 1) scanning from the left, acc the characters passed
SplitScan(s, acc) ==
    IF s = <<>> THEN <<acc>>
    ELSE IF Head(s) = "-" THEN <<acc, Tail(s)>>
         ELSE SplitScan(Tail(s), Append(acc, Head(s)))

RECURSIVE RSplitScan(_, _)
RSplitScan(s, acc) ==
    IF s = <<>> THEN <<acc>>
    ELSE IF s[Len(s)] = "-" THEN <<SubSeq(s, 1, Len(s) - 1), acc>>
         ELSE RSplitScan(SubSeq(s, 1, Len(s) - 1), <<s[Len(s)]>> \o acc)

\* SplitModel, had the code called model.rsplit('-', 1)
SplitModelLast(s) == RSplitScan(s, <<>>)

\* model.split('-', 1)
SplitModel(s) == SplitScan(s, <<>>)

\* lines 50-55
DecodeStep(h, sc) ==
    IF h.data.kind # "dict"
    THEN [h EXCEPT !.pc = "done", !.resp = Uncaught("AttributeError")]
    ELSE LET d == h.data.fields
             messages == DictGet(d, "messages", <<>>)
             model == DictGet(d, "model", JStr(sc["model"]))
             n == DictGet(d, "n", sc["n"])
             sys == FirstContent(messages, "system")
             usr == FirstContent(messages, "user")
             h1 == [h EXCEPT !.messages = messages, !.model = model, !.n = n]
         IN  IF ~sys.ok
             THEN [h1 EXCEPT !.pc = "done", !.resp = Uncaught("KeyError")]
             ELSE IF ~usr.ok
             THEN [h1 EXCEPT !.pc = "done", !.resp = Uncaught("KeyError"),
                             !.system_prompt = sys.v]
             ELSE [h1 EXCEPT !.pc = "decoded", !.system_prompt = sys.v,
                             !.initial_query = usr.v]

\* lines 60-63
SelectClient(base_url) ==
    IF base_url # "" THEN [base_url |-> base_url, default |-> FALSE]
    ELSE [base_url |-> "", default |-> TRUE]

\* ResolveStep, had the code split the model field in every mode
ResolveStepAlwaysSplits(h, sc) ==
    IF "base_url" \notin DOMAIN sc
    THEN [h EXCEPT !.pc = "done", !.resp = Uncaught("KeyError"),
                   !.approach = sc["approach"]]
    ELSE LET h1 == [h EXCEPT !.approach = sc["approach"],
                             !.base_url = sc["base_url"],
                             !.client = SelectClient(sc["base_url"])]
         IN  IF h.model.t # "str"
             THEN [h1 EXCEPT !.pc = "done", !.resp = Uncaught("AttributeError")]
             ELSE LET parts == SplitModel(h.model.v) IN
                  IF Len(parts) < 2
                  THEN [h1 EXCEPT !.pc = "done", !.resp = Uncaught("IndexError")]
                  ELSE [h1 EXCEPT !.pc = "resolved",
                                  !.approach = IF sc["approach"] = S_auto
                                               THEN parts[1] ELSE sc["approach"],
                                  !.model = JStr(parts[2])]

\* lines 57-70
ResolveStep(h, sc) ==
    IF "base_url" \notin DOMAIN sc
    THEN [h EXCEPT !.pc = "done", !.resp = Uncaught("KeyError"),
                   !.approach = sc["approach"]]
    ELSE LET h1 == [h EXCEPT !.approach = sc["approach"],
                             !.base_url = sc["base_url"],
                             !.client = SelectClient(sc["base_url"])]
         IN  IF sc["approach"] # S_auto THEN [h1 EXCEPT !.pc = "resolved"]
             ELSE IF h.model.t # "str"
             THEN [h1 EXCEPT !.pc = "done", !.resp = Uncaught("AttributeError")]
             ELSE LET parts == SplitModel(h.model.v) IN
                  IF Len(parts) < 2
                  THEN [h1 EXCEPT !.pc = "done", !.resp = Uncaught("IndexError"),
                                  !.approach = parts[1]]
                  ELSE [h1 EXCEPT !.pc = "resolved", !.approach = parts[1],
                                  !.model = JStr(parts[2])]

\* the keyword and positional parameters each branch of lines 73-97 passes
StrategyParams(approach, h, sc) ==
    CASE approach = S_mcts ->
             [ simulations |-> sc["mcts_simulations"],
               exploration |-> sc["mcts_exploration"],
               depth |-> sc["mcts_depth"] ]
      [] approach = S_bon -> [ n |-> sc["best_of_n"] ]
      [] approach = S_rstar ->
             [ max_depth |-> sc["rstar_max_depth"],
               num_rollouts |-> sc["rstar_num_rollouts"],
               c |-> sc["rstar_c"] ]
      [] approach = S_cot_reflection ->
             [ return_full_response |-> sc["return_full_response"] ]
      [] approach = S_plansearch -> [ n |-> h.n ]
      [] OTHER -> <<>>

\* DispatchStep, had the else branch fallen back to best-of-n sampling
DispatchStepFallsBack(h, sc) ==
    LET name == IF h.approach \in KnownApproaches THEN h.approach ELSE S_bon IN
    [h EXCEPT !.pc = "running",
              !.call = [ made |-> TRUE,
                         name |-> name,
                         system_prompt |-> h.system_prompt,
                         initial_query |-> h.initial_query,
                         client |-> h.client,
                         model |-> h.model,
                         params |-> StrategyParams(name, h, sc) ]]

\* lines 72-99 up to the strategy call, and lines 100-102 for the ValueError
DispatchStep(h, sc) ==
    IF h.approach \in KnownApproaches
    THEN [h EXCEPT !.pc = "running",
                   !.call = [ made |-> TRUE,
                              name |-> h.approach,
                              system_prompt |-> h.system_prompt,
                              initial_query |-> h.initial_query,
                              client |-> h.client,
                              model |-> h.model,
                              params |-> StrategyParams(h.approach, h, sc) ]]
    ELSE [h EXCEPT !.pc = "done",
                   !.resp = ErrorResponse(S_UnknownApproach \o h.approach)]

\* one entry of response_data['choices']
Choice(index, content) ==
    [ index |-> index,
      message |-> [role |-> "assistant", content |-> content],
      finish_reason |-> "stop" ]

\* AssembleChoices, had the code numbered the choices from 1
AssembleChoicesFromOne(final_response) ==
    IF final_response.t = "list"
    THEN [i \in 1..Len(final_response.l) |-> Choice(i, final_response.l[i])]
    ELSE <<Choice(0, final_response.s)>>

\* lines 109-127
AssembleChoices(final_response) ==
    IF final_response.t = "list"
    THEN [i \in 1..Len(final_response.l) |-> Choice(i - 1, final_response.l[i])]
    ELSE <<Choice(0, final_response.s)>>

\* SuccessResponse, had the code echoed the model field of the request
SuccessResponseEchoesRequest(h, final_response) ==
    [NoResponse EXCEPT !.kind = "success", !.status = 200,
                       !.model = DictGet(h.data.fields, "model", h.model),
                       !.choices = AssembleChoices(final_response)]

\* lines 104-130
SuccessResponse(h, final_response) ==
    [NoResponse EXCEPT !.kind = "success", !.status = 200, !.model = h.model,
                       !.choices = AssembleChoices(final_response)]

\* the strategy call ends: lines 100-102 when it raised, lines 104-130 else
ReturnStep(h, outcome) ==
    IF outcome.t = "raise"
    THEN [h EXCEPT !.pc = "done", !.final_response = outcome,
                   !.resp = ErrorResponse(outcome.msg)]
    ELSE [h EXCEPT !.pc = "done", !.final_response = outcome,
                   !.resp = SuccessResponse(h, outcome)]

\* a strategy returned a string, returned a list, or raised Exception(msg)
ReturnsStr(s) == [t |-> "str", s |-> s, l |-> <<>>, msg |-> <<>>]
ReturnsList(l) == [t |-> "list", s |-> "", l |-> l, msg |-> <<>>]
Raises(msg) == [t |-> "raise", s |-> "", l |-> <<>>, msg |-> msg]

\* the request ended because a strategy raised
StrategyFailed(h) == h.pc = "done" /\ h.final_response.t = "raise"

---------------------------------------------------------------------------
(* Actions.                                                                *)

\* line 47: a handler thread gets the decoded body of a POST; afterFailure
\* records (history only, the code reads nothing of it) that a strategy had
\* already raised for another request when this one arrived
Receive(r, Payloads) ==
    /\ started
    /\ handlers[r].pc = "idle"
    /\ \E data \in Payloads :
         handlers' = [handlers EXCEPT ![r] =
             [@ EXCEPT !.pc = "received", !.data = data,
                       !.afterFailure = \E q \in DOMAIN handlers : StrategyFailed(handlers[q])]]
    /\ UNCHANGED <<server_config, started>>

Decode(r) ==
    /\ handlers[r].pc = "received"
    /\ handlers' = [handlers EXCEPT ![r] = DecodeStep(@, server_config)]
    /\ UNCHANGED <<server_config, started>>

\* Resolve, had the code stored the resolved approach in server_config
ResolveWritesBack(r) ==
    /\ handlers[r].pc = "decoded"
    /\ handlers' = [handlers EXCEPT ![r] = ResolveStep(@, server_config)]
    /\ server_config' = [server_config EXCEPT !["approach"] = handlers'[r].approach]
    /\ UNCHANGED started

Resolve(r) ==
    /\ handlers[r].pc = "decoded"
    /\ handlers' = [handlers EXCEPT ![r] = ResolveStep(@, server_config)]
    /\ UNCHANGED <<server_config, started>>

Dispatch(r) ==
    /\ handlers[r].pc = "resolved"
    /\ handlers' = [handlers EXCEPT ![r] = DispatchStep(@, server_config)]
    /\ UNCHANGED <<server_config, started>>

\* StrategyReturn, had the except clause put server_config back to the
\* module's values
StrategyReturnResetsConfig(r, Outcomes) ==
    /\ handlers[r].pc = "running"
    /\ \E outcome \in Outcomes :
         /\ handlers' = [handlers EXCEPT ![r] = ReturnStep(@, outcome)]
         /\ server_config' = IF outcome.t = "raise" THEN ModuleConfig ELSE server_config
    /\ UNCHANGED started

StrategyReturn(r, Outcomes) ==
    /\ handlers[r].pc = "running"
    /\ \E outcome \in Outcomes :
         handlers' = [handlers EXCEPT ![r] = ReturnStep(@, outcome)]
    /\ UNCHANGED <<server_config, started>>

---------------------------------------------------------------------------
(* The inputs: command lines, request bodies, strategy outcomes.           *)

Alphabet == {"z", "3", "-"}
Contents == {"a", "b"}
Roles == {"system", "user", "assistant"}
LocalUrl == "http://localhost:8080/v1"
S_boom == <<"b","o","o","m">>
S_bon_gpt_4o_mini == S_bon \o <<"-">> \o S_gpt_4o_mini

\* every string over Alphabet of at most MaxLen characters
AlphabetStrings == UNION { [1..k -> Alphabet] : k \in 0..MaxLen }

\* "<approach>-gpt-4o-mini" for each approach of the command line, and the
\* bare default model
NamedModels ==
    { a \o <<"-">> \o S_gpt_4o_mini : a \in ApproachChoices } \cup {S_gpt_4o_mini}

\* well-formed messages, a message without role, messages without content
MessageKinds ==
    { [role |-> r, content |-> c] : r \in Roles, c \in Contents }
    \cup { [content |-> "a"] }
    \cup { [role |-> r] : r \in {"system", "user"} }

MessageSeqs == UNION { [1..k -> MessageKinds] : k \in 0..MaxMsgs }

BasicMessages ==
    << [role |-> "system", content |-> "a"], [role |-> "user", content |-> "b"] >>

\* bodies that vary the model field
ResolvePayloads ==
    { JObject([model |-> JStr(m), messages |-> BasicMessages]) :
          m \in AlphabetStrings \cup NamedModels }
    \cup { JObject([model |-> JNull, messages |-> BasicMessages]),
           JObject([messages |-> BasicMessages]) }

\* bodies that vary the messages
MessagePayloads ==
    { JObject([model |-> JStr(S_bon_gpt_4o_mini), messages |-> ms]) :
          ms \in MessageSeqs }
    \cup { JObject([model |-> JStr(S_bon_gpt_4o_mini)]) }

\* a few bodies of each kind
BasicPayloads ==
    { JNotObject,
      JObject([messages |-> BasicMessages]),
      JObject([model |-> JStr(S_bon_gpt_4o_mini), messages |-> BasicMessages, n |-> 2]),
      JObject([model |-> JStr(S_plansearch \o <<"-">> \o S_z3), n |-> 2]),
      JObject([model |-> JStr(S_z3), messages |-> <<[role |-> "user", content |-> "a"]>>]),
      JObject([model |-> JStr(S_gpt_4o_mini), messages |-> <<[content |-> "a"]>>]) }

BasicOutcomes == { ReturnsStr("a"), ReturnsList(<<"a", "b">>), Raises(S_boom) }

\* every string, every list of at most MaxN strings, an exception
AssembleOutcomes ==
    { ReturnsStr(c) : c \in Contents }
    \cup { ReturnsList(l) : l \in UNION { [1..k -> Contents] : k \in 0..MaxN } }
    \cup { Raises(S_boom) }

\* command lines: every --approach, with and without --base_url
AllArgs ==
    { ParsedArgs(a, S_gpt_4o_mini, u, 1, FALSE) :
          a \in ApproachChoices, u \in {"", LocalUrl} }

\* command lines of the concurrent server: auto and three of the fixed
\* approaches (the others are reached under SpecResolve)
ServerArgs ==
    { ParsedArgs(a, m, u, 1, f) :
          a \in {S_auto, S_bon, S_plansearch, S_cot_reflection},
          m \in {S_gpt_4o_mini}, u \in {"", LocalUrl}, f \in {FALSE} }

---------------------------------------------------------------------------
(* Specifications.                                                         *)

\* the server under MaxReq concurrent requests
Next ==
    \/ main(ServerArgs)
    \/ \E r \in 1..MaxReq :
         \/ Receive(r, BasicPayloads)
         \/ Decode(r)
         \/ Resolve(r)
         \/ Dispatch(r)
         \/ StrategyReturn(r, BasicOutcomes)

Spec == Init /\ [][Next]_vars

\* one request, every model string
NextResolve ==
    \/ main(AllArgs)
    \/ Receive(1, ResolvePayloads)
    \/ Decode(1)
    \/ Resolve(1)
    \/ Dispatch(1)
    \/ StrategyReturn(1, BasicOutcomes)

SpecResolve == Init /\ [][NextResolve]_vars

\* one request, every message sequence
NextMessages ==
    \/ main(AllArgs)
    \/ Receive(1, MessagePayloads)
    \/ Decode(1)
    \/ Resolve(1)
    \/ Dispatch(1)
    \/ StrategyReturn(1, BasicOutcomes)

SpecMessages == Init /\ [][NextMessages]_vars

\* one request, every strategy outcome
NextAssemble ==
    \/ main(AllArgs)
    \/ Receive(1, BasicPayloads)
    \/ Decode(1)
    \/ Resolve(1)
    \/ Dispatch(1)
    \/ StrategyReturn(1, AssembleOutcomes)

SpecAssemble == Init /\ [][NextAssemble]_vars

---------------------------------------------------------------------------
(* Vocabulary of the properties.                                           *)

Reqs == DOMAIN handlers

HasHyphen(s) == \E i \in 1..Len(s) : s[i] = "-"

\* position of the first '-' of a string that has one
FirstHyphen(s) ==
    CHOOSE i \in 1..Len(s) : s[i] = "-" /\ \A j \in 1..(i - 1) : s[j] # "-"

BeforeFirstHyphen(s) == SubSeq(s, 1, FirstHyphen(s) - 1)
AfterFirstHyphen(s) == SubSeq(s, FirstHyphen(s) + 1, Len(s))

\* the model field of the body, or the configured default when it has none
RequestedModel(h) ==
    IF "model" \in DOMAIN h.data.fields THEN h.data.fields["model"]
    ELSE JStr(server_config["model"])

RequestedMessages(h) ==
    IF "messages" \in DOMAIN h.data.fields THEN h.data.fields["messages"] ELSE <<>>

IsRole(msg, role) == "role" \in DOMAIN msg /\ msg["role"] = role

\* position of the first message of the role, 0 when there is none
FirstIndexOfRole(msgs, role) ==
    LET at == { i \in 1..Len(msgs) : IsRole(msgs[i], role) } IN
    IF at = {} THEN 0 ELSE CHOOSE i \in at : \A j \in at : i <= j

\* the first message of the role, when there is one, has a content
FirstOfRoleHasContent(msgs, role) ==
    FirstIndexOfRole(msgs, role) # 0 =>
        "content" \in DOMAIN msgs[FirstIndexOfRole(msgs, role)]

\* content of the first message of the role, "" when there is none
FirstOfRole(msgs, role) ==
    IF FirstIndexOfRole(msgs, role) = 0 THEN ""
    ELSE msgs[FirstIndexOfRole(msgs, role)]["content"]

\* the body decoded into messages, model and n, and both prompts were found
Decoded(h) ==
    \/ h.pc \in {"decoded", "resolved", "running"}
    \/ h.pc = "done" /\ h.resp.exc \in {"", "IndexError"}
    \/ h.pc = "done" /\ h.resp.exc = "AttributeError" /\ h.data.kind = "dict"

\* a strategy name and a model were resolved
Resolved(h) ==
    \/ h.pc \in {"resolved", "running"}
    \/ h.pc = "done" /\ h.resp.kind \in {"success", "error"}

AutoMode == started /\ server_config["approach"] = S_auto
FixedMode == started /\ server_config["approach"] # S_auto

\* proxy() run from the body to the response with nothing in between
RunAlone(data, outcome, sc) ==
    LET h0 == [IdleHandler EXCEPT !.pc = "received", !.data = data]
        h1 == DecodeStep(h0, sc)
        h2 == IF h1.pc = "done" THEN h1 ELSE ResolveStep(h1, sc)
        h3 == IF h2.pc = "done" THEN h2 ELSE DispatchStep(h2, sc)
    IN  IF h3.pc = "done" THEN h3 ELSE ReturnStep(h3, outcome)

---------------------------------------------------------------------------
(* The claims.                                                             *)

\* C1: every request ends with status 200 and the success schema or with
\* status 500 and the body {"error": <message>}; none ends with an
\* exception that proxy() does not catch.
C1_EveryRequestEndsInJson ==
    \A r \in Reqs :
        handlers[r].pc = "done" =>
            \/ handlers[r].resp.kind = "success" /\ handlers[r].resp.status = 200
            \/ handlers[r].resp.kind = "error" /\ handlers[r].resp.status = 500

\* C2: in auto mode a model string without '-' ends the request with the
\* status-500 JSON error response, and no strategy is invoked.
C2_NoHyphenGivesJsonError ==
    \A r \in Reqs :
        LET h == handlers[r] IN
        ( /\ AutoMode
          /\ h.pc = "done"
          /\ Decoded(h)
          /\ RequestedModel(h).t = "str"
          /\ ~HasHyphen(RequestedModel(h).v) )
        => /\ ~h.call.made
           /\ h.resp.kind = "error"
           /\ h.resp.status = 500

\* C3: in auto mode, for a model string with at least one '-', the strategy
\* name is the part before the first '-', the model is the part after it
\* (later '-' kept), and joining the two with '-' gives the model string back.
C3_SplitAtFirstHyphen ==
    \A r \in Reqs :
        LET h == handlers[r]
            s == RequestedModel(h).v
        IN  ( /\ AutoMode
              /\ Decoded(h)
              /\ h.pc # "decoded"
              /\ RequestedModel(h).t = "str"
              /\ HasHyphen(s) )
            => /\ Resolved(h)
               /\ h.approach = BeforeFirstHyphen(s)
               /\ h.model = JStr(AfterFirstHyphen(s))
               /\ h.approach \o <<"-">> \o h.model.v = s
               /\ h.call.made => h.call.name = BeforeFirstHyphen(s)
                                 /\ h.call.model = JStr(AfterFirstHyphen(s))

\* a request in auto mode for "mcts-gpt-4o-mini" reached the mcts strategy
\* with model "gpt-4o-mini"
C3_Witness ==
    \E r \in Reqs :
        /\ AutoMode
        /\ RequestedModel(handlers[r]) = JStr(S_mcts \o <<"-">> \o S_gpt_4o_mini)
        /\ handlers[r].call.made
        /\ handlers[r].call.name = S_mcts
        /\ handlers[r].call.model = JStr(S_gpt_4o_mini)

\* C4: when the configured approach is not "auto", the strategy dispatched
\* is the configured approach and the model passed to it is the model field
\* of the request, untouched, or the configured default when there is none.
C4_FixedModeDispatch ==
    \A r \in Reqs :
        LET h == handlers[r] IN
        ( /\ FixedMode
          /\ Decoded(h)
          /\ h.pc \in {"running", "done"} )
        => /\ h.call.made
           /\ h.call.name = server_config["approach"]
           /\ h.call.model = RequestedModel(h)

\* a request for the model "z3-z" under --approach bon reached bon with the
\* model "z3-z"
C4_Witness ==
    \E r \in Reqs :
        /\ FixedMode
        /\ server_config["approach"] = S_bon
        /\ handlers[r].call.made
        /\ handlers[r].call.name = S_bon
        /\ RequestedModel(handlers[r]) = JStr(<<"z", "3", "-", "z">>)
        /\ handlers[r].call.model = JStr(<<"z", "3", "-", "z">>)

\* C5: when the resolved strategy name is none of the ten known ones, the
\* response is status 500 with the body {"error": "Unknown approach: <name>"}
\* and no strategy is called.
C5_UnknownApproach ==
    \A r \in Reqs :
        LET h == handlers[r] IN
        ( /\ Resolved(h)
          /\ h.pc # "resolved"
          /\ h.approach \notin KnownApproaches )
        => /\ h.pc = "done"
           /\ ~h.call.made
           /\ h.final_response.t = "none"
           /\ h.resp.kind = "error"
           /\ h.resp.status = 500
           /\ h.resp.error = S_UnknownApproach \o h.approach

\* the model "3z-z" in auto mode was answered "Unknown approach: 3z"
C5_Witness ==
    \E r \in Reqs :
        /\ AutoMode
        /\ handlers[r].pc = "done"
        /\ handlers[r].approach = <<"3", "z">>
        /\ handlers[r].resp.status = 500
        /\ handlers[r].resp.error = S_UnknownApproach \o <<"3", "z">>

\* C6: a string result gives exactly one choice, at index 0, carrying it; a
\* list result gives one choice per element, the choice at position i with
\* index i and the i-th element, in order; every choice has role
\* "assistant" and finish_reason "stop".
C6_ChoicesFollowResult ==
    \A r \in Reqs :
        LET h == handlers[r]
            f == h.final_response
            ch == h.resp.choices
        IN  ( h.pc = "done" /\ f.t \in {"str", "list"} )
            => /\ h.resp.kind = "success"
               /\ f.t = "str" =>
                     /\ Len(ch) = 1
                     /\ ch[1].index = 0
                     /\ ch[1].message.content = f.s
               /\ f.t = "list" =>
                     /\ Len(ch) = Len(f.l)
                     /\ \A i \in 1..Len(f.l) :
                            /\ ch[i].index = i - 1
                            /\ ch[i].message.content = f.l[i]
               /\ \A i \in 1..Len(ch) :
                     /\ ch[i].message.role = "assistant"
                     /\ ch[i].finish_reason = "stop"

\* a strategy returned ["a", "b", "a"] and the response has three choices
C6_Witness ==
    \E r \in Reqs :
        /\ handlers[r].pc = "done"
        /\ handlers[r].final_response = ReturnsList(<<"a", "b", "a">>)
        /\ Len(handlers[r].resp.choices) = 3
        /\ handlers[r].resp.choices[3].index = 2

\* C7: a step in which a strategy raises leaves server_config, the server
\* and every other request as they were, and a request received after such
\* a failure ends with the response proxy() gives that body alone.
C7_FailureLeavesServerIntact ==
    /\ [][ \A r \in Reqs :
             ( handlers[r].pc = "running" /\ StrategyFailed(handlers'[r]) )
             => /\ server_config' = server_config
                /\ started' = started
                /\ \A q \in Reqs \ {r} : handlers'[q] = handlers[q] ]_vars
    /\ [] ( \A r \in Reqs :
              ( handlers[r].afterFailure /\ handlers[r].pc = "done" )
              => handlers[r].resp =
                     RunAlone(handlers[r].data, handlers[r].final_response,
                              server_config).resp )

\* a strategy raised for one request, and a request received after that
\* was answered with status 200
C7_Witness ==
    \E r, q \in Reqs :
        /\ StrategyFailed(handlers[r])
        /\ handlers[q].afterFailure
        /\ handlers[q].pc = "done"
        /\ handlers[q].resp.status = 200

\* the values a handler has read from server_config are the values
\* server_config holds
ReadsAgree(h) ==
    /\ ( Decoded(h) /\ h.data.kind = "dict" ) =>
           h.n = DictGet(h.data.fields, "n", server_config["n"])
    /\ h.pc = "decoded" => h.model = RequestedModel(h)
    /\ Resolved(h) =>
           /\ h.base_url = server_config["base_url"]
           /\ h.client = SelectClient(server_config["base_url"])
           /\ server_config["approach"] # S_auto =>
                  /\ h.approach = server_config["approach"]
                  /\ h.model = RequestedModel(h)
           /\ server_config["approach"] = S_auto =>
                  h.approach \o <<"-">> \o h.model.v = RequestedModel(h).v
    /\ h.call.made =>
           /\ h.call.client = SelectClient(server_config["base_url"])
           /\ h.call.params = StrategyParams(h.call.name, h, server_config)

\* C8: once the server has started no step of any request changes
\* server_config, and what a request has read from it (approach, base_url,
\* default model, strategy parameters) is what it holds at every step.
C8_ConfigReadOnly ==
    /\ [][ started => server_config' = server_config ]_vars
    /\ [] ( \A r \in Reqs : ReadsAgree(handlers[r]) )

\* two requests in flight at once, one inside its strategy and one resolved
C8_Witness ==
    \E r, q \in Reqs :
        /\ r # q
        /\ handlers[r].pc = "running"
        /\ handlers[r].call.params = [n |-> server_config["best_of_n"]]
        /\ handlers[q].pc = "resolved"
        /\ handlers[q].base_url = LocalUrl

\* C9: the system prompt passed to the strategy is the content of the
\* first message with role "system", "" when there is none, and the user
\* query that of the first message with role "user", "" when there is none.
C9_FirstSystemFirstUser ==
    \A r \in Reqs :
        LET h == handlers[r] IN
        h.call.made =>
            /\ FirstOfRoleHasContent(RequestedMessages(h), "system")
            /\ FirstOfRoleHasContent(RequestedMessages(h), "user")
            /\ h.call.system_prompt = FirstOfRole(RequestedMessages(h), "system")
            /\ h.call.initial_query = FirstOfRole(RequestedMessages(h), "user")

\* of two system messages with different contents the first was passed,
\* and "" as the query since no message has role "user"
C9_Witness ==
    \E r \in Reqs :
        /\ handlers[r].call.made
        /\ RequestedMessages(handlers[r]) =
               << [role |-> "assistant", content |-> "a"],
                  [role |-> "system", content |-> "b"],
                  [role |-> "system", content |-> "a"] >>
        /\ handlers[r].call.system_prompt = "b"
        /\ handlers[r].call.initial_query = ""

\* C10: the model of a success response is the model passed to the
\* strategy: the requested or default model when the approach is fixed,
\* the part after the first '-' in auto mode.
C10_ResponseEchoesPassedModel ==
    \A r \in Reqs :
        LET h == handlers[r] IN
        h.resp.kind = "success" =>
            /\ h.call.made
            /\ h.resp.model = h.call.model
            /\ FixedMode => h.resp.model = RequestedModel(h)
            /\ AutoMode => h.resp.model = JStr(AfterFirstHyphen(RequestedModel(h).v))

\* "bon-gpt-4o-mini" in auto mode was answered with model "gpt-4o-mini"
C10_Witness ==
    \E r \in Reqs :
        /\ AutoMode
        /\ handlers[r].resp.kind = "success"
        /\ RequestedModel(handlers[r]) = JStr(S_bon_gpt_4o_mini)
        /\ handlers[r].resp.model = JStr(S_gpt_4o_mini)

=============================================================================
